---- MODULE Spec2Model ----
(***************************************************************************)
(* Model of the coffee-shop single page application shell:                 *)
(*   - services/Router.js : Router.init, Router.setMetadata, Router.go     *)
(*     with its lazy module loading (dynamic import) and its view          *)
(*     transition (document.startViewTransition) paths;                    *)
(*   - services/Store.js  : the proxy store { menu, cart } that dispatches *)
(*     appmenuchange / appcartchange on every write.                       *)
(* A route is a sequence of one-character strings, so that startsWith,     *)
(* lastIndexOf and substring are computed as the code computes them.       *)
(***************************************************************************)
EXTENDS Integers, Sequences, FiniteSets, TLC

\* ------------------------------------------------------------------ bounds
\* number of Router.go invocations explored (Router.init's own included)
MaxNavs == 3
\* number of handlers that may be registered with the store's events
MaxHandlers == 2
\* number of writes to the store explored
MaxWrites == 2

\* ------------------------------------------------------------------ routes
ProductPrefix == <<"/", "p", "r", "o", "d", "u", "c", "t", "-">>
RouteRoot == <<"/">>
RouteOrder == <<"/", "o", "r", "d", "e", "r">>
RouteProduct42 == ProductPrefix \o <<"4", "2">>
RouteProductAbc == ProductPrefix \o <<"a", "b", "c">>
RouteProductDashed == ProductPrefix \o <<"a", "-", "b">>
RouteProductEmpty == ProductPrefix
RouteUnknown == <<"/", "u", "n", "k", "n", "o", "w", "n">>
RouteProductNoDash == <<"/", "p", "r", "o", "d", "u", "c", "t">>

\* the paths a link, a programmatic call or the address bar may carry
Routes ==
  { RouteRoot, RouteOrder, RouteProduct42, RouteProductAbc, RouteProductDashed,
    RouteProductEmpty, RouteUnknown, RouteProductNoDash }

\* the paths Router.go is called with after start-up: the navigation links,
\* the product cards, the details page, and one path nothing is routed to
NavRoutes == { RouteRoot, RouteOrder, RouteProduct42, RouteUnknown }

LazyViews == {"order", "details"}

VARIABLES
  hasVT,        \* document.startViewTransition exists in this runtime
  inited,       \* Router.init has run
  hist,         \* the session history entries
  histIdx,      \* index of the current history entry
  main,         \* children of <main>, in document order
  docTitle,     \* document.title
  themeColor,   \* content of meta[name="theme-color"]
  moduleMap,    \* per lazy view: "absent", "fetching", "loaded", "failed"
  loads,        \* per lazy view: number of module fetches started
  navs,         \* every Router.go invocation, in invocation order
  transitions,  \* view transition update callbacks not yet called (FIFO)
  popThrew,     \* a popstate listener threw (event.state was null)
  store,        \* the object behind app.store: { menu, cart }
  handlers,     \* per event name: the registered listeners, in order
  writes,       \* per field: number of writes made
  dispatched,   \* per event name: number of events dispatched
  lastWrite,    \* the latest write: its field, the old and the new value
  lastDelivery  \* the listener calls made by the latest write, in order

routerVars ==
  << hasVT, inited, hist, histIdx, main, docTitle, themeColor, moduleMap,
     loads, navs, transitions, popThrew >>

storeVars == << store, handlers, writes, dispatched, lastWrite, lastDelivery >>

vars == << routerVars, storeVars >>

\* ---------------------------------------------------------- string helpers
Max(S) == CHOOSE x \in S : \A y \in S : y <= x
Min(S) == CHOOSE x \in S : \A y \in S : x <= y

\* String.prototype.startsWith
StartsWith(s, p) == Len(s) >= Len(p) /\ SubSeq(s, 1, Len(p)) = p

\* String.prototype.indexOf of one character, 0-based, -1 when absent
IndexOf(s, c) ==
  LET I == { i \in 1..Len(s) : s[i] = c }
  IN  IF I = {} THEN -1 ELSE Min(I) - 1

\* String.prototype.lastIndexOf of one character, 0-based, -1 when absent
LastIndexOf(s, c) ==
  LET I == { i \in 1..Len(s) : s[i] = c }
  IN  IF I = {} THEN -1 ELSE Max(I) - 1

\* String.prototype.substring(start), start 0-based
Substring(s, start) ==
  LET from == IF start < 0 THEN 0 ELSE IF start > Len(s) THEN Len(s) ELSE start
  IN  SubSeq(s, from + 1, Len(s))

\* ------------------------------------------------------- route resolution
NoParam == <<"(none)">>

\* the switch of Router.go: which branch the route takes
ResolveLoose(route) ==
  IF route = RouteRoot THEN "menu"
  ELSE IF StartsWith(route, RouteOrder) THEN "order"
  ELSE IF StartsWith(route, RouteProductNoDash) THEN "details"
  ELSE "none"

Resolve(route) ==
  IF route = RouteRoot THEN "menu"
  ELSE IF route = RouteOrder THEN "order"
  ELSE IF StartsWith(route, ProductPrefix) THEN "details"
  ELSE "none"

\* pageElement.dataset.productId
ProductIdFirstDash(route) == Substring(route, IndexOf(route, "-") + 1)

ProductId(route) == Substring(route, LastIndexOf(route, "-") + 1)

TagOf(view) ==
  CASE view = "menu" -> "menu-page"
    [] view = "order" -> "order-page"
    [] view = "details" -> "details-page"

\* pageElement while it is still null
NoElement == [ tag |-> "(null)", productId |-> NoParam, nav |-> 0 ]

\* document.createElement for the branch, with the data attribute of details
CreateElementNoParam(view, route, id) ==
  [ tag |-> TagOf(view), productId |-> NoParam, nav |-> id ]

CreateElement(view, route, id) ==
  [ tag |-> TagOf(view),
    productId |-> IF view = "details" THEN ProductId(route) ELSE NoParam,
    nav |-> id ]

\* Router.setMetadata
SetMetadata(title, color) ==
  [ title |-> <<title, " - Coffee Shop">>, theme |-> color ]

MetadataOf(view) ==
  CASE view = "menu" -> SetMetadata("Menu", "#fff")
    [] view = "order" -> SetMetadata("Your Order", "#f60")
    [] view = "details" -> SetMetadata("Product Details", "#f0f")

InitialMetadata == [ title |-> <<"(index.html)">>, theme |-> "(index.html)" ]

\* ----------------------------------------------------------------- history
\* the entry the document was loaded on carries no state object
LoadedEntry(path) == [ hasState |-> FALSE, route |-> <<>>, url |-> path ]

NavigationEntry(route) == [ hasState |-> TRUE, route |-> route, url |-> route ]

\* history.replaceState, the neighbour of pushState
ReplaceState(h, idx, route) ==
  [ entries |-> [ h EXCEPT ![idx] = NavigationEntry(route) ], idx |-> idx ]

\* a navigation to the location already shown adds no entry
PushStateUnlessCurrent(h, idx, route) ==
  IF h[idx].url = route
  THEN [ entries |-> h, idx |-> idx ]
  ELSE [ entries |-> Append(SubSeq(h, 1, idx), NavigationEntry(route)),
         idx |-> idx + 1 ]

\* history.pushState({ route }, '', route): drops the forward entries and
\* appends the new entry, which becomes the current one
PushState(h, idx, route) ==
  [ entries |-> Append(SubSeq(h, 1, idx), NavigationEntry(route)),
    idx |-> idx + 1 ]

\* the flag the popstate listener hands to Router.go
PopstateAddsAlways == TRUE

PopstateAddToHistory == FALSE

\* ------------------------------------------------------------ module loads
\* import() of a lazy view's module: the module map starts one fetch for a
\* specifier and every later import() of it joins the same entry
StartImportRefetch(mm, ld, view) ==
  [ map |-> [ mm EXCEPT ![view] = "fetching" ],
    loads |-> [ ld EXCEPT ![view] = @ + 1 ] ]

\* one chunk for both lazy views: importing one fetches the other as well
StartImportBoth(mm, ld, view) ==
  [ map |-> [ v \in DOMAIN mm |-> IF mm[v] = "absent" THEN "fetching" ELSE mm[v] ],
    loads |-> [ v \in DOMAIN ld |-> IF mm[v] = "absent" THEN ld[v] + 1 ELSE ld[v] ] ]

StartImport(mm, ld, view) ==
  IF mm[view] = "absent"
  THEN [ map |-> [ mm EXCEPT ![view] = "fetching" ],
         loads |-> [ ld EXCEPT ![view] = @ + 1 ] ]
  ELSE [ map |-> mm, loads |-> ld ]

\* the awaited import() promise has settled
ImportSettledEarly(status) == status \in {"fetching", "loaded", "failed"}

ImportSettled(status) == status \in {"loaded", "failed"}

\* the awaited import() fulfilled, so Router.go goes on past the await
ImportSwallowsFailure(status) == status \in {"loaded", "failed"}

ImportFulfilled(status) == status = "loaded"

\* ------------------------------------------------------------ display slot
\* changePage: remove main's first element child, if any, and append
ChangePageRemoveOnly(m, el) ==
  IF m /= <<>> THEN Tail(m) ELSE <<el>>

ChangePageAppendOnly(m, el) == Append(m, el)

ChangePage(m, el) ==
  IF m /= <<>> THEN Append(Tail(m), el) ELSE <<el>>

\* lines 88-94: hand changePage to the view transition, or run it now
MountAnimatesOnly(m, tr, el) ==
  IF hasVT
  THEN [ main |-> m, transitions |-> tr ]
  ELSE [ main |-> ChangePage(m, el), transitions |-> tr ]

\* the newest transition's callback is called before the older pending ones
MountNewestFirst(m, tr, el) ==
  IF hasVT
  THEN [ main |-> m, transitions |-> <<el>> \o tr ]
  ELSE [ main |-> ChangePage(m, el), transitions |-> tr ]

Mount(m, tr, el) ==
  IF hasVT
  THEN [ main |-> m, transitions |-> Append(tr, el) ]
  ELSE [ main |-> ChangePage(m, el), transitions |-> tr ]

MountStep == IF hasVT THEN "startViewTransition" ELSE "changePage"

\* a navigation started later supersedes the suspended ones
AwaitingLatestOnly == { i \in {Len(navs)} : i >= 1 /\ navs[i].pc = "await" }

Awaiting == { i \in 1..Len(navs) : navs[i].pc = "await" }

\* ------------------------------------------------------------------ Router
\* Router.go up to its first await (or to its end when it has none), called
\* by via ("init", "navigate" or "popstate") with the history position idx
\* the browser is at
Go(route, addToHistory, idx, via) ==
  LET id == Len(navs) + 1
      view == Resolve(route)
      H == IF addToHistory THEN PushState(hist, idx, route)
           ELSE [ entries |-> hist, idx |-> idx ]
      pushed == IF addToHistory THEN <<"pushState">> ELSE <<>>
      el == CreateElement(view, route, id)
      M == Mount(main, transitions, el)
      I == StartImport(moduleMap, loads, view)
      overlap == Awaiting /= {}
      marked == [ i \in 1..Len(navs) |->
                    IF i \in Awaiting THEN [ navs[i] EXCEPT !.overlap = TRUE ]
                    ELSE navs[i] ]
      nav(pc, created, trace) ==
        [ route |-> route, add |-> addToHistory, via |-> via, view |-> view,
          pc |-> pc, el |-> created, trace |-> pushed \o trace,
          overlap |-> overlap ]
  IN  /\ Len(navs) < MaxNavs
      /\ hist' = H.entries
      /\ histIdx' = H.idx
      /\ CASE view = "menu" ->
                /\ docTitle' = MetadataOf(view).title
                /\ themeColor' = MetadataOf(view).theme
                /\ main' = M.main
                /\ transitions' = M.transitions
                /\ navs' = Append(marked,
                     nav("resolved", el,
                         <<"createElement", "setMetadata", MountStep, "scrollX">>))
                /\ UNCHANGED << moduleMap, loads >>
           [] view = "order" ->
                /\ moduleMap' = I.map
                /\ loads' = I.loads
                /\ navs' = Append(marked, nav("await", NoElement, <<"import">>))
                /\ UNCHANGED << docTitle, themeColor, main, transitions >>
           [] view = "details" ->
                /\ docTitle' = MetadataOf(view).title
                /\ themeColor' = MetadataOf(view).theme
                /\ moduleMap' = I.map
                /\ loads' = I.loads
                /\ navs' = Append(marked, nav("await", NoElement,
                                           <<"setMetadata", "import">>))
                /\ UNCHANGED << main, transitions >>
           [] view = "none" ->
                /\ navs' = Append(marked, nav("resolved", NoElement, <<"scrollX">>))
                /\ UNCHANGED << docTitle, themeColor, main, transitions,
                                moduleMap, loads >>

\* Router.init: registers the listeners and processes the initial URL
RouterInit ==
  /\ ~inited
  /\ inited' = TRUE
  /\ Go(hist[histIdx].url, TRUE, histIdx, "init")
  /\ UNCHANGED << hasVT, popThrew >>
  /\ UNCHANGED storeVars

\* a click on a.navlink, or a call of Router.go(route) by a component
Navigate(route) ==
  /\ inited
  /\ Go(route, TRUE, histIdx, "navigate")
  /\ UNCHANGED << hasVT, inited, popThrew >>
  /\ UNCHANGED storeVars

\* the user goes back or forward to the entry idx next to the current one;
\* the popstate listener runs
\* Router.go(event.state.route, false), and throws when event.state is null
Popstate(idx) ==
  /\ inited
  /\ idx \in 1..Len(hist)
  /\ idx /= histIdx
  /\ UNCHANGED storeVars
  /\ IF hist[idx].hasState
     THEN /\ Go(hist[idx].route, PopstateAddToHistory, idx, "popstate")
          /\ UNCHANGED << hasVT, inited, popThrew >>
     ELSE /\ histIdx' = idx
          /\ popThrew' = TRUE
          /\ UNCHANGED << hasVT, inited, hist, main, docTitle, themeColor,
                          moduleMap, loads, navs, transitions >>

\* the fetch and evaluation of a lazy view's module ends, well or badly
ImportSettle(view, ok) ==
  /\ moduleMap[view] = "fetching"
  /\ moduleMap' = [ moduleMap EXCEPT ![view] = IF ok THEN "loaded" ELSE "failed" ]
  /\ UNCHANGED << hasVT, inited, hist, histIdx, main, docTitle, themeColor,
                  loads, navs, transitions, popThrew >>
  /\ UNCHANGED storeVars

\* Router.go from its await to its end; the reactions of the imports of one
\* module run in the order the imports were made
Continue(i) ==
  /\ i \in Awaiting
  /\ ImportSettled(moduleMap[navs[i].view])
  /\ \A j \in Awaiting : navs[j].view = navs[i].view => i <= j
  /\ LET n == navs[i]
         el == CreateElement(n.view, n.route, i)
         M == Mount(main, transitions, el)
     IN  IF ImportFulfilled(moduleMap[n.view])
         THEN /\ main' = M.main
              /\ transitions' = M.transitions
              /\ IF n.view = "order"
                 THEN /\ docTitle' = MetadataOf(n.view).title
                      /\ themeColor' = MetadataOf(n.view).theme
                      /\ navs' = [ navs EXCEPT ![i] =
                           [ n EXCEPT !.pc = "resolved", !.el = el,
                                      !.trace = @ \o <<"imported", "createElement",
                                                       "setMetadata", MountStep,
                                                       "scrollX">> ] ]
                 ELSE /\ navs' = [ navs EXCEPT ![i] =
                           [ n EXCEPT !.pc = "resolved", !.el = el,
                                      !.trace = @ \o <<"imported", "createElement",
                                                       "productId", MountStep,
                                                       "scrollX">> ] ]
                      /\ UNCHANGED << docTitle, themeColor >>
         ELSE /\ navs' = [ navs EXCEPT ![i] =
                   [ n EXCEPT !.pc = "rejected", !.trace = @ \o <<"throw">> ] ]
              /\ UNCHANGED << main, transitions, docTitle, themeColor >>
  /\ UNCHANGED << hasVT, inited, hist, histIdx, moduleMap, loads, popThrew >>
  /\ UNCHANGED storeVars

\* the browser calls the update callback of the oldest pending transition
RunTransition ==
  /\ transitions /= <<>>
  /\ main' = ChangePage(main, Head(transitions))
  /\ transitions' = Tail(transitions)
  /\ UNCHANGED << hasVT, inited, hist, histIdx, docTitle, themeColor,
                  moduleMap, loads, navs, popThrew >>
  /\ UNCHANGED storeVars

\* ------------------------------------------------------------------- Store
Fields == {"menu", "cart"}

Events == {"appmenuchange", "appcartchange"}

\* the event the proxy dispatches for a field
EventOf(field) == IF field = "menu" THEN "appmenuchange" ELSE "appcartchange"

HandlerIds == 1..MaxHandlers

NullMenu == "null"
MenuValues == { NullMenu, "menu.json" }

CartLine(productId, quantity) == [ productId |-> productId, quantity |-> quantity ]

\* ordered sequences of cart lines, one of them with the same line twice
CartValues ==
  { <<>>,
    << CartLine("1", 2) >>,
    << CartLine("1", 2), CartLine("1", 2) >>,
    << CartLine("1", 2), CartLine("2", 1) >>,
    << CartLine("2", 1), CartLine("1", 2) >> }

ValuesOf(field) == IF field = "menu" THEN MenuValues ELSE CartValues

\* whether the set trap dispatches: it does for every write
SetNotifiesOnChange(old, new) == old /= new

SetNotifies(old, new) == TRUE

\* dispatchEvent: the listeners of the event are called one after the other in
\* registration order; a listener reads the store as it is at its call
DispatchNewestFirst(event, listeners, st) ==
  [ i \in 1..Len(listeners) |->
      [ handler |-> listeners[Len(listeners) + 1 - i], event |-> event,
        seen |-> st ] ]

Dispatch(event, listeners, st) ==
  [ i \in 1..Len(listeners) |->
      [ handler |-> listeners[i], event |-> event, seen |-> st ] ]

Registered(event) == { handlers[event][i] : i \in 1..Len(handlers[event]) }

\* a sequence without its repeated entries, the first of each kept
Deduplicated(seq) ==
  LET keep == { k \in 1..Len(seq) : \A j \in 1..(k - 1) : seq[j] /= seq[k] }
  IN  [ i \in 1..Cardinality(keep) |->
          seq[CHOOSE k \in keep : Cardinality({ j \in keep : j <= k }) = i] ]

\* target[property] = value: the field is replaced in full by the value given
CommitDeduplicated(st, field, value) ==
  [ st EXCEPT ![field] = IF field = "cart" THEN Deduplicated(value) ELSE value ]

Commit(st, field, value) == [ st EXCEPT ![field] = value ]

\* the store a listener reads: the event is dispatched after the assignment
SeenBeforeCommit(before, committed) == before

SeenByListeners(before, committed) == committed

\* the listener calls a dispatch makes when the listeners in T throw: an
\* exception of one listener is reported and the next listener is called
DeliverUntilThrow(calls, T) ==
  LET bad == { k \in 1..Len(calls) : calls[k].handler \in T }
      last == IF bad = {} THEN Len(calls) ELSE Min(bad)
  IN  [ k \in 1..last |->
          [ handler |-> calls[k].handler, event |-> calls[k].event,
            seen |-> calls[k].seen, threw |-> calls[k].handler \in T ] ]

DeliverTo(calls, T) ==
  [ k \in 1..Len(calls) |->
      [ handler |-> calls[k].handler, event |-> calls[k].event,
        seen |-> calls[k].seen, threw |-> calls[k].handler \in T ] ]

\* addEventListener(event, handler)
Subscribe(event, h) ==
  /\ h \notin Registered(event)
  /\ handlers' = [ handlers EXCEPT ![event] = Append(@, h) ]
  /\ UNCHANGED << store, writes, dispatched, lastWrite, lastDelivery >>
  /\ UNCHANGED routerVars

\* removeEventListener(event, handler)
Unsubscribe(event, h) ==
  /\ h \in Registered(event)
  /\ handlers' = [ handlers EXCEPT ![event] = SelectSeq(@, LAMBDA x : x /= h) ]
  /\ UNCHANGED << store, writes, dispatched, lastWrite, lastDelivery >>
  /\ UNCHANGED routerVars

\* app.store[field] = value: the set trap stores the value, then dispatches
\* the field's event, and returns when every listener has run; the listeners
\* in T throw when they are called
WriteThrowing(field, value, T) ==
  /\ writes["menu"] + writes["cart"] < MaxWrites
  /\ T \subseteq Registered(EventOf(field))
  /\ LET committed == Commit(store, field, value)
         event == EventOf(field)
         fires == SetNotifies(store[field], value)
         calls == Dispatch(event, handlers[event], SeenByListeners(store, committed))
     IN  /\ store' = committed
         /\ writes' = [ writes EXCEPT ![field] = @ + 1 ]
         /\ lastWrite' = [ field |-> field, old |-> store[field], new |-> value ]
         /\ dispatched' =
              IF fires THEN [ dispatched EXCEPT ![event] = @ + 1 ] ELSE dispatched
         /\ lastDelivery' = IF fires THEN DeliverTo(calls, T) ELSE <<>>
  /\ UNCHANGED handlers
  /\ UNCHANGED routerVars

\* a write none of whose listeners throws
Write(field, value) == WriteThrowing(field, value, {})

\* the document as loaded: any path in the address bar, an empty <main>
Init ==
  /\ hasVT \in BOOLEAN
  /\ inited = FALSE
  /\ \E path \in Routes : hist = << LoadedEntry(path) >>
  /\ histIdx = 1
  /\ main = <<>>
  /\ docTitle = InitialMetadata.title
  /\ themeColor = InitialMetadata.theme
  /\ moduleMap = [ v \in LazyViews |-> "absent" ]
  /\ loads = [ v \in LazyViews |-> 0 ]
  /\ navs = <<>>
  /\ transitions = <<>>
  /\ popThrew = FALSE
  /\ store = [ menu |-> NullMenu, cart |-> <<>> ]
  /\ handlers = [ e \in Events |-> <<>> ]
  /\ writes = [ f \in Fields |-> 0 ]
  /\ dispatched = [ e \in Events |-> 0 ]
  /\ lastWrite = [ field |-> "none", old |-> NullMenu, new |-> NullMenu ]
  /\ lastDelivery = <<>>

Next ==
  \/ RouterInit
  \/ \E route \in NavRoutes : Navigate(route)
  \/ \E idx \in {histIdx - 1, histIdx + 1} : Popstate(idx)
  \/ \E view \in LazyViews, ok \in BOOLEAN : ImportSettle(view, ok)
  \/ \E i \in 1..Len(navs) : Continue(i)
  \/ RunTransition

Spec == Init /\ [][Next]_vars

\* the router with the scheduling the browser guarantees, from a document
\* loaded at '/': the reaction of a settled import() runs (microtask queue)
\* and the update callback of a view transition is called
InitLive == Init /\ hist = << LoadedEntry(RouteRoot) >>

Fairness ==
  /\ \A i \in 1..MaxNavs : WF_vars(Continue(i))
  /\ WF_vars(RunTransition)

SpecLive == InitLive /\ [][Next]_vars /\ Fairness

\* the store on its own: components subscribing, unsubscribing and writing
NextStore ==
  \/ \E event \in Events, h \in HandlerIds : Subscribe(event, h)
  \/ \E event \in Events, h \in HandlerIds : Unsubscribe(event, h)
  \/ \E field \in Fields : \E value \in ValuesOf(field) : Write(field, value)

\* the page at rest on '/', before Router.init, with an empty store
InitStore ==
  /\ Init
  /\ hasVT = FALSE
  /\ hist = << LoadedEntry(RouteRoot) >>

SpecStore == InitStore /\ [][NextStore]_vars

\* the cart and its listeners, one of which throws at each write
NextStoreThrows ==
  \/ \E h \in HandlerIds : Subscribe("appcartchange", h)
  \/ \E h \in HandlerIds : Unsubscribe("appcartchange", h)
  \/ \E value \in CartValues, h \in HandlerIds : WriteThrowing("cart", value, {h})

SpecStoreThrows == InitStore /\ [][NextStoreThrows]_vars

\* =================================================================== claims
\* a step in which Router.go was invoked, and the navigation it started
Invoked == Len(navs') = Len(navs) + 1
NewNav == navs'[Len(navs')]

\* a step in which navigation i went past its await
Resumed(i) == i \in 1..Len(navs) /\ navs[i].pc = "await" /\ navs'[i].pc /= "await"

Count(seq, x) == Cardinality({ k \in 1..Len(seq) : seq[k] = x })

\* the elements in the display slot or waiting in a transition callback
Mounted == { main[k] : k \in 1..Len(main) }
Pending == { transitions[k] : k \in 1..Len(transitions) }

\* C1: every Router.go(route) with addToHistory true pushes exactly one entry
\* { route } for its route, as its first effect (before resolution, import,
\* metadata and mount) and whatever the route resolves to; going past the
\* await, settling an import and running a transition push nothing.
C1_ForwardPushesOneEntryFirst ==
  [][ /\ (Invoked /\ NewNav.add) =>
           /\ hist' = Append(SubSeq(hist, 1, histIdx),
                             [ hasState |-> TRUE, route |-> NewNav.route,
                               url |-> NewNav.route ])
           /\ histIdx' = histIdx + 1
           /\ Len(hist') = Len(SubSeq(hist, 1, histIdx)) + 1
           /\ NewNav.trace[1] = "pushState"
           /\ Count(NewNav.trace, "pushState") = 1
      /\ ~Invoked => hist' = hist
    ]_vars

\* C1 witness: a forward navigation to an unroutable route and one whose
\* import failed have both left their entry in the history
C1_Witness ==
  /\ \E i \in 1..Len(navs) :
       /\ navs[i].add /\ navs[i].view = "none"
       /\ \E k \in 1..Len(hist) : hist[k].hasState /\ hist[k].route = navs[i].route
  /\ \E i \in 1..Len(navs) :
       /\ navs[i].add /\ navs[i].pc = "rejected"
       /\ \E k \in 1..Len(hist) : hist[k].hasState /\ hist[k].route = navs[i].route

\* C2: the navigation a popstate starts is called with addToHistory false and
\* pushes nothing: the entries stay as they are when it is invoked (only the
\* current index has moved) and when it goes past its await.
C2_ReplayLeavesHistory ==
  [][ /\ (Invoked /\ NewNav.via = "popstate") =>
           /\ ~NewNav.add
           /\ hist' = hist
           /\ Count(NewNav.trace, "pushState") = 0
      /\ \A i \in 1..Len(navs) :
           (Resumed(i) /\ navs[i].via = "popstate") =>
              /\ hist' = hist
              /\ Count(navs'[i].trace, "pushState") = 0
    ]_vars

\* C2 witness: after a step back a replay has mounted its view, and the
\* entries after the current one are still there
C2_Witness ==
  /\ histIdx < Len(hist)
  /\ \E i \in 1..Len(navs) :
       /\ navs[i].via = "popstate" /\ navs[i].pc = "resolved"
       /\ navs[i].el \in Mounted
       /\ navs[i].route = hist[histIdx].route

\* C3: Router.go with a route that is not '/', not '/order' and does not
\* start with '/product-' leaves <main> and the pending swaps as they are,
\* starts no import, leaves title and theme-color alone and resolves.
C3_UnroutableIsNoOp ==
  [][ ( /\ Invoked
        /\ NewNav.route /= <<"/">>
        /\ NewNav.route /= <<"/", "o", "r", "d", "e", "r">>
        /\ ~StartsWith(NewNav.route, ProductPrefix) ) =>
           /\ main' = main
           /\ transitions' = transitions
           /\ moduleMap' = moduleMap
           /\ loads' = loads
           /\ docTitle' = docTitle
           /\ themeColor' = themeColor
           /\ NewNav.pc = "resolved"
           /\ NewNav.el = NoElement
           /\ \A i \in 1..Len(navs) : navs'[i].pc = navs[i].pc
    ]_vars

\* C3 witness: '/unknown' was navigated to forward while a view was mounted,
\* and that view is still the mounted one
C3_Witness ==
  \E i \in 1..Len(navs) :
    /\ navs[i].route = RouteUnknown /\ navs[i].add /\ navs[i].pc = "resolved"
    /\ Len(main) = 1
    /\ main[1].nav < i
    /\ i = Len(navs)

\* C4: when the import of the target view's module fails, Router.go rejects,
\* the step leaves <main> and the pending swaps as they are, and no element
\* of a rejected navigation is ever mounted or waiting to be.
C4_FailedLoadMountsNothing ==
  /\ [][ \A i \in 1..Len(navs) :
           (Resumed(i) /\ moduleMap[navs[i].view] = "failed") =>
              /\ navs'[i].pc = "rejected"
              /\ navs'[i].el = NoElement
              /\ main' = main
              /\ transitions' = transitions
       ]_vars
  /\ [] \A i \in 1..Len(navs) :
          (navs[i].view \in LazyViews /\ navs[i].pc /= "await"
             /\ moduleMap[navs[i].view] = "failed") =>
             /\ navs[i].pc = "rejected"
             /\ \A e \in Mounted \cup Pending : e.nav /= i

\* C4 witness: a navigation was rejected while an earlier view was mounted,
\* and that view is still in <main>
C4_Witness ==
  \E i \in 1..Len(navs) :
    /\ navs[i].pc = "rejected"
    /\ Len(main) = 1
    /\ main[1].nav < i
    /\ transitions = <<>>

\* C5: each lazy view's module is fetched at most once, whatever the number
\* of navigations to it, and a navigation has gone past its await only when
\* that one fetch has ended (well, if it created the view's element).
C5_OneLoadAwaited ==
  /\ \A v \in LazyViews : loads[v] <= 1
  /\ \A i \in 1..Len(navs) :
       navs[i].view \in LazyViews =>
         /\ loads[navs[i].view] = 1
         /\ navs[i].pc /= "await" => moduleMap[navs[i].view] \in {"loaded", "failed"}
         /\ navs[i].el /= NoElement => moduleMap[navs[i].view] = "loaded"

\* C5 witness: two navigations to the same lazy view overlapped, both have
\* mounted it, and its module was fetched once
C5_Witness ==
  \E i, j \in 1..Len(navs) :
    /\ i < j
    /\ navs[i].view \in LazyViews
    /\ navs[j].view = navs[i].view
    /\ navs[i].overlap /\ navs[j].overlap
    /\ navs[i].pc = "resolved" /\ navs[j].pc = "resolved"
    /\ loads[navs[i].view] = 1

\* the non-overlapping forward navigation to '/order' of a page loaded on '/'
OrderScenario(i) ==
  /\ hist[1].url = <<"/">>
  /\ navs[i].route = <<"/", "o", "r", "d", "e", "r">>
  /\ navs[i].add
  /\ ~navs[i].overlap

OrderEntryPushed ==
  \E k \in 1..Len(hist') :
    hist'[k].hasState /\ hist'[k].route = <<"/", "o", "r", "d", "e", "r">>

\* a Router.go('/order') made when the order module is already loaded
SecondOrderLoadsNothing ==
  (Invoked /\ NewNav.route = <<"/", "o", "r", "d", "e", "r">>
     /\ moduleMap["order"] = "loaded") =>
       (loads' = loads /\ moduleMap' = moduleMap)

\* C6 as claimed: starting at '/', when a non-overlapping navigate('/order')
\* whose load succeeded resolves, the order module was loaded once, an entry
\* for '/order' is in the history and <main> holds the order view; a later
\* navigate('/order') loads nothing.
C6_AsClaimed ==
  [][ /\ \A i \in 1..Len(navs) :
           (Resumed(i) /\ OrderScenario(i) /\ navs'[i].pc = "resolved") =>
              /\ loads'["order"] = 1
              /\ OrderEntryPushed
              /\ \E e \in Mounted' : e.tag = "order-page" /\ e.nav = i
      /\ SecondOrderLoadsNothing
    ]_vars

\* C6 amended: as claimed, except that <main> holds the order view once the
\* swap has run: at once when there is no document.startViewTransition, and
\* otherwise when the transition's callback, which Router.go hands the swap
\* to before it resolves, is called.
C6_OrderMountedOnceSwapRuns ==
  [][ /\ \A i \in 1..Len(navs) :
           (Resumed(i) /\ OrderScenario(i) /\ navs'[i].pc = "resolved") =>
              /\ loads'["order"] = 1
              /\ OrderEntryPushed
              /\ ~hasVT => \E e \in Mounted' : e.tag = "order-page" /\ e.nav = i
              /\ hasVT =>
                   /\ transitions' /= <<>>
                   /\ transitions'[Len(transitions')].tag = "order-page"
                   /\ transitions'[Len(transitions')].nav = i
      /\ \A i \in 1..Len(navs) :
           ( /\ OrderScenario(i)
             /\ transitions /= <<>>
             /\ Head(transitions).nav = i
             /\ transitions' = Tail(transitions) ) =>
               \E e \in Mounted' : e.tag = "order-page" /\ e.nav = i
      /\ SecondOrderLoadsNothing
    ]_vars

\* C6 witness: with view transitions, on a page loaded on '/', two
\* navigations to '/order' one after the other have resolved, the second
\* one's order view is in <main>, and the module was fetched once
C6_Witness ==
  \E i, j \in 1..Len(navs) :
    /\ i < j
    /\ hasVT
    /\ OrderScenario(i) /\ OrderScenario(j)
    /\ navs[i].pc = "resolved" /\ navs[j].pc = "resolved"
    /\ transitions = <<>>
    /\ main = << navs[j].el >>
    /\ navs[j].el.tag = "order-page"
    /\ loads["order"] = 1

\* p is what follows the last '-' of route r
AfterLastDash(r, p) ==
  /\ Len(p) < Len(r)
  /\ \A k \in 1..Len(p) : p[k] /= "-"
  /\ r[Len(r) - Len(p)] = "-"
  /\ r = SubSeq(r, 1, Len(r) - Len(p)) \o p

\* C7: the element created for a route that starts with '/product-' carries
\* as productId exactly what follows the last '-' of the route: "42" for
\* '/product-42', "abc" for '/product-abc', the last segment when the
\* identifier has a '-' in it, and the empty string for '/product-'.
C7_ProductIdAfterLastDash ==
  \A i \in 1..Len(navs) :
    (StartsWith(navs[i].route, ProductPrefix) /\ navs[i].pc = "resolved") =>
      /\ navs[i].el.tag = "details-page"
      /\ AfterLastDash(navs[i].route, navs[i].el.productId)
      /\ navs[i].route = ProductPrefix \o <<"4", "2">> =>
           navs[i].el.productId = <<"4", "2">>
      /\ navs[i].route = ProductPrefix \o <<"a", "b", "c">> =>
           navs[i].el.productId = <<"a", "b", "c">>
      /\ navs[i].route = ProductPrefix \o <<"a", "-", "b">> =>
           navs[i].el.productId = <<"b">>
      /\ navs[i].route = ProductPrefix => navs[i].el.productId = <<>>

\* C7 witness: the details view of '/product-a-b' is mounted with productId
\* "b", and '/product-42' was navigated to as well
C7_Witness ==
  /\ \E e \in Mounted :
       /\ navs[e.nav].route = RouteProductDashed
       /\ e.productId = <<"b">>
  /\ \E i \in 1..Len(navs) :
       navs[i].route = RouteProduct42 /\ navs[i].el.productId = <<"4", "2">>

\* the view kind and parameter the routing table gives a route
ExpectedTag(r) ==
  IF r = <<"/">> THEN "menu-page"
  ELSE IF r = <<"/", "o", "r", "d", "e", "r">> THEN "order-page"
  ELSE IF Len(r) >= 9 /\ SubSeq(r, 1, 9) = <<"/", "p", "r", "o", "d", "u", "c", "t", "-">>
       THEN "details-page"
  ELSE "(null)"

\* C8: what a navigation creates depends on its route alone: '/' the menu
\* view, '/order' the order view, '/product-...' the details view with its
\* parameter, anything else nothing; so a replayed entry creates the same
\* view kind with the same parameter as the navigation that recorded it.
C8_ResolutionByRouteAlone ==
  /\ \A i \in 1..Len(navs) :
       /\ navs[i].pc = "resolved" => navs[i].el.tag = ExpectedTag(navs[i].route)
       /\ navs[i].pc /= "resolved" => navs[i].el = NoElement
       /\ navs[i].el.tag = "details-page" <=>
            navs[i].el.productId /= NoParam
       /\ navs[i].el.tag = "details-page" =>
            AfterLastDash(navs[i].route, navs[i].el.productId)
  /\ \A i, j \in 1..Len(navs) :
       ( /\ navs[i].route = navs[j].route
         /\ navs[i].pc = "resolved" /\ navs[j].pc = "resolved" ) =>
           /\ navs[i].el.tag = navs[j].el.tag
           /\ navs[i].el.productId = navs[j].el.productId
  /\ \A e \in Mounted \cup Pending : e = navs[e.nav].el

\* C8 witness: the entry a forward navigation to a product recorded was
\* replayed while another view was mounted, and the replay mounted the
\* details view with the same parameter
C8_Witness ==
  \E i, j \in 1..Len(navs) :
    /\ i < j
    /\ navs[i].add /\ navs[j].via = "popstate"
    /\ navs[i].route = navs[j].route
    /\ navs[i].el.tag = "details-page" /\ navs[j].el.tag = "details-page"
    /\ navs[i].el.productId = navs[j].el.productId
    /\ navs[j].el \in Mounted
    /\ \E k \in 1..Len(navs) : i < k /\ k < j /\ navs[k].el.tag = "menu-page"

\* C9: every write to 'menu' or 'cart' dispatches exactly one event of the
\* field's kind, also when the value written equals the current one: after k
\* writes of a field, k events of its kind have been dispatched, and the
\* listener calls of a write are all of that kind.
C9_WriteAlwaysNotifies ==
  /\ dispatched["appmenuchange"] = writes["menu"]
  /\ dispatched["appcartchange"] = writes["cart"]
  /\ \A k \in 1..Len(lastDelivery) :
       /\ lastWrite.field = "menu" => lastDelivery[k].event = "appmenuchange"
       /\ lastWrite.field = "cart" => lastDelivery[k].event = "appcartchange"

\* C9 witness: the second of two cart writes wrote the value the cart already
\* had, and a subscribed handler was called for it: two events for two writes
C9_Witness ==
  /\ writes["cart"] = 2
  /\ lastWrite.field = "cart"
  /\ lastWrite.old = lastWrite.new
  /\ dispatched["appcartchange"] = 2
  /\ Len(lastDelivery) >= 1

\* C10: a write of a field calls each of the N handlers registered for the
\* field's event exactly once, in registration order, within the write.
C10_HandlersInRegistrationOrder ==
  [][ \A f \in Fields :
        writes'[f] = writes[f] + 1 =>
          LET e == IF f = "menu" THEN "appmenuchange" ELSE "appcartchange"
          IN  /\ Len(lastDelivery') = Len(handlers[e])
              /\ \A k \in 1..Len(handlers[e]) :
                   /\ lastDelivery'[k].handler = handlers[e][k]
                   /\ lastDelivery'[k].event = e
              /\ \A h \in HandlerIds :
                   Cardinality({ k \in 1..Len(lastDelivery') :
                                   lastDelivery'[k].handler = h })
                     = IF h \in Registered(e) THEN 1 ELSE 0
              /\ handlers' = handlers
    ]_vars

\* C10 witness: handler 2 was registered before handler 1 for the cart event
\* and a cart write called 2, then 1
C10_Witness ==
  /\ handlers["appcartchange"] = <<2, 1>>
  /\ lastWrite.field = "cart"
  /\ Len(lastDelivery) = 2
  /\ lastDelivery[1].handler = 2
  /\ lastDelivery[2].handler = 1

\* C11: the event of a write is dispatched after the value is stored: every
\* listener called for the write reads, in the written field, exactly the
\* value of that write, and the store holds that value.
C11_ListenersSeeCommittedValue ==
  lastWrite.field \in {"menu", "cart"} =>
    /\ store[lastWrite.field] = lastWrite.new
    /\ \A k \in 1..Len(lastDelivery) :
         lastDelivery[k].seen[lastWrite.field] = lastWrite.new

\* C11 witness: a cart write replaced the empty cart by a line, and the
\* second of two listeners read that line
C11_Witness ==
  /\ lastWrite.field = "cart"
  /\ lastWrite.old = <<>>
  /\ lastWrite.new = << [ productId |-> "1", quantity |-> 2 ] >>
  /\ Len(lastDelivery) = 2
  /\ lastDelivery[2].seen.cart = lastWrite.new

\* C12: after a write of a field the store holds exactly the value written,
\* in its order and with its repeated lines, and the other field is as it was.
C12_WriteThenReadSame ==
  [][ \A f \in {"menu", "cart"} :
        writes'[f] = writes[f] + 1 =>
          /\ lastWrite'.field = f
          /\ store'[f] = lastWrite'.new
          /\ \A g \in {"menu", "cart"} : g /= f => store'[g] = store[g]
    ]_vars

\* C12 witness: the cart was written with the same line twice after the menu
\* was written, and the store holds both as written
C12_Witness ==
  /\ lastWrite.field = "cart"
  /\ lastWrite.new = << [ productId |-> "1", quantity |-> 2 ],
                        [ productId |-> "1", quantity |-> 2 ] >>
  /\ store.cart = lastWrite.new
  /\ store.menu = "menu.json"

\* C13: when a listener throws during the dispatch of a write, every listener
\* registered for the event is still called, once and in order, and the
\* store holds the value written.
C13_ThrowingListenerIsolated ==
  [][ writes'["cart"] = writes["cart"] + 1 =>
        /\ Len(lastDelivery') = Len(handlers["appcartchange"])
        /\ \A k \in 1..Len(handlers["appcartchange"]) :
             lastDelivery'[k].handler = handlers["appcartchange"][k]
        /\ store'.cart = lastWrite'.new
    ]_vars

\* C13 witness: the first of two listeners threw, the second was called
\* after it, and the cart holds the value written
C13_Witness ==
  /\ Len(lastDelivery) = 2
  /\ lastDelivery[1].threw
  /\ ~lastDelivery[2].threw
  /\ lastWrite.new /= lastWrite.old
  /\ store.cart = lastWrite.new

\* no Router.go is suspended and no transition callback is waiting
Quiescent == Awaiting = {} /\ transitions = <<>>

\* no Router.go was invoked while another one was suspended
NoOverlap == \A i \in 1..Len(navs) : ~navs[i].overlap

\* the navigations that created an element
Created == { i \in 1..Len(navs) : navs[i].el /= NoElement }

\* C14: after non-overlapping navigations, once nothing is pending, <main>
\* holds the element of the last navigation that created one (nothing when
\* none did), with and without document.startViewTransition alike.
C14_SwapResultWithoutCapability ==
  (Quiescent /\ NoOverlap) =>
    /\ Created = {} => main = <<>>
    /\ Created /= {} =>
         /\ main = << navs[Max(Created)].el >>
         /\ main[1].tag = ExpectedTag(navs[Max(Created)].route)

\* C14 witness: with view transitions, three navigations one after the
\* other, the last one to '/unknown', have left the second one's order view
\* in <main>
C14_Witness ==
  /\ hasVT
  /\ Quiescent /\ NoOverlap
  /\ Len(navs) = 3
  /\ navs[1].el.tag = "menu-page"
  /\ navs[2].el.tag = "order-page"
  /\ navs[3].view = "none"
  /\ main = << navs[2].el >>

\* C15: a navigation to '/' imports nothing and is never suspended, and the
\* module of a lazy view is fetched only once a navigation to a route of that
\* view was made.
C15_LazyModulesOnDemand ==
  /\ \A i \in 1..Len(navs) :
       navs[i].route = <<"/">> =>
         /\ navs[i].pc = "resolved"
         /\ Count(navs[i].trace, "import") = 0
  /\ (loads["order"] > 0 \/ moduleMap["order"] /= "absent") =>
       \E i \in 1..Len(navs) : navs[i].route = <<"/", "o", "r", "d", "e", "r">>
  /\ (loads["details"] > 0 \/ moduleMap["details"] /= "absent") =>
       \E i \in 1..Len(navs) : StartsWith(navs[i].route, ProductPrefix)
  /\ loads["order"] + loads["details"] <=
       Cardinality({ i \in 1..Len(navs) : navs[i].route /= <<"/">> })

\* C15 witness: '/' was mounted and '/order' navigated to, the order module
\* is loaded and the details module was never asked for
C15_Witness ==
  /\ \E i \in 1..Len(navs) : navs[i].route = RouteRoot /\ navs[i].el \in Mounted
  /\ \E i \in 1..Len(navs) : navs[i].route = RouteOrder
  /\ moduleMap["order"] = "loaded"
  /\ moduleMap["details"] = "absent"
  /\ loads["details"] = 0

\* C16: <main> never holds more than one element, what it holds is the
\* element some navigation created, and it holds exactly one as soon as one
\* swap has run.
C16_AtMostOneMounted ==
  /\ Len(main) <= 1
  /\ \A e \in Mounted : e.nav \in Created /\ e = navs[e.nav].el
  /\ (\E i \in Created : navs[i].el \notin Pending) => Len(main) = 1

\* C16 witness: two overlapping navigations have both run their swap and
\* <main> holds one element, the one of the navigation invoked first
C16_Witness ==
  \E i, j \in Created :
    /\ i < j
    /\ navs[i].overlap /\ navs[j].overlap
    /\ transitions = <<>>
    /\ main = << navs[i].el >>

\* C17: a navigation to a lazily loaded view that is suspended on the load of
\* its module has not changed the title or the theme colour.
C17_ChromeOnlyAfterLoad ==
  [][ (Invoked /\ NewNav.pc = "await") =>
        (docTitle' = docTitle /\ themeColor' = themeColor) ]_vars

\* navigation i reaches window.scrollX = 0 in this step, having created an
\* element
ScrollResetAfterCreate(i) ==
  /\ navs'[i].el /= NoElement
  /\ Count(navs'[i].trace, "scrollX") = 1
  /\ i <= Len(navs) => Count(navs[i].trace, "scrollX") = 0

\* C18: when a navigation that created an element resets the scroll offset,
\* the swap has been done: its element is in <main>.
C18_ScrollResetAfterSwap ==
  [][ \A i \in 1..Len(navs') :
        ScrollResetAfterCreate(i) => navs'[i].el \in Mounted' ]_vars

\* a back/forward signal is handled in this step: the popstate listener
\* calls Router.go, or the position in the history moves and Router.go is
\* not called
PopstateHandled ==
  \/ Invoked /\ NewNav.via = "popstate"
  \/ ~Invoked /\ histIdx' /= histIdx

\* C19: every handled back/forward signal lands on an entry with a recorded
\* route, and Router.go is called with that route.
C19_PopstateHasRecordedRoute ==
  [][ PopstateHandled =>
        /\ hist'[histIdx'].hasState
        /\ Invoked
        /\ NewNav.route = hist'[histIdx'].route ]_vars

\* C20: a suspended Router.go whose module load has settled eventually
\* settles itself; when it resumes it rejects on a failed load, leaving <main>
\* alone, and otherwise resolves with its element mounted or handed to the
\* transition callback; and an element handed to the callback is eventually
\* mounted, whatever navigations were started meanwhile.
C20_NavigationRunsToCompletion ==
  /\ \A i \in 1..MaxNavs :
       (i <= Len(navs) /\ navs[i].pc = "await"
          /\ ImportSettled(moduleMap[navs[i].view]))
         ~> (i <= Len(navs) /\ navs[i].pc \in {"resolved", "rejected"})
  /\ [][ \A i \in 1..Len(navs) :
           (navs[i].pc = "await" /\ navs'[i].pc /= "await") =>
             IF moduleMap[navs[i].view] = "failed"
             THEN navs'[i].pc = "rejected" /\ main' = main
             ELSE /\ navs'[i].pc = "resolved"
                  /\ navs'[i].el /= NoElement
                  /\ navs'[i].el \in Mounted' \cup Pending' ]_vars
  /\ [][ \A i \in 1..Len(navs) :
           navs[i].pc /= "await" => navs'[i] = navs[i] ]_vars
  /\ \A i \in 1..MaxNavs :
       (i <= Len(navs) /\ navs[i].el \in Pending)
         ~> (i <= Len(navs) /\ navs[i].el \in Mounted)

\* C20 witness: the order navigation was suspended when a later navigation
\* was started and settled; the order navigation has resolved all the same
\* and its element is in <main>
C20_Witness ==
  \E i, j \in 1..Len(navs) :
    /\ i < j
    /\ navs[i].view = "order" /\ navs[i].overlap
    /\ navs[i].pc = "resolved"
    /\ navs[j].pc \in {"resolved", "rejected"}
    /\ navs[j].el /= NoElement
    /\ main = << navs[i].el >>

\* the static table of title and theme colour, by mounted element
ChromeOfTag(tag) ==
  CASE tag = "menu-page" ->
         [ title |-> <<"Menu", " - Coffee Shop">>, theme |-> "#fff" ]
    [] tag = "order-page" ->
         [ title |-> <<"Your Order", " - Coffee Shop">>, theme |-> "#f60" ]
    [] tag = "details-page" ->
         [ title |-> <<"Product Details", " - Coffee Shop">>, theme |-> "#f0f" ]

\* C21: in every quiescent state in which a view is mounted, the title and
\* the theme colour are the ones the table gives for the mounted view.
C21_ChromeMatchesMountedView ==
  (Quiescent /\ main /= <<>>) =>
    /\ docTitle = ChromeOfTag(main[1].tag).title
    /\ themeColor = ChromeOfTag(main[1].tag).theme

\* the navigation invoked last
Latest == navs[Len(navs)]

CreatesElement(i) ==
  /\ navs'[i].el /= NoElement
  /\ i <= Len(navs) => navs[i].el = NoElement

AllRoutableAndLoaded ==
  /\ NoOverlap
  /\ \A i \in 1..Len(navs) :
       /\ ExpectedTag(navs[i].route) /= "(null)"
       /\ navs[i].pc /= "rejected"
  /\ \A v \in LazyViews : moduleMap[v] /= "failed"

\* C23: after non-overlapping navigations, forward and replayed, with
\* routable routes and loads that succeed, in every quiescent state the
\* mounted element is the one of the route of the current history entry
\* (its tag, and for a product route the id after the last '-').
C23_MountedMatchesCurrentEntry ==
  (inited /\ Quiescent /\ AllRoutableAndLoaded) =>
    /\ Len(main) = 1
    /\ main[1].tag = ExpectedTag(hist[histIdx].url)
    /\ main[1].tag = "details-page" =>
         AfterLastDash(hist[histIdx].url, main[1].productId)

\* the route r is the one of the mounted element
ShowsRoute(r) ==
  /\ main /= <<>>
  /\ main[1].tag /= "(null)"
  /\ main[1].tag = ExpectedTag(r)
  /\ main[1].tag = "details-page" => AfterLastDash(r, main[1].productId)

\* Router.init and then only forward navigations, all to the route r, no
\* traversal of the history in between
OnlyForwardTo(r) ==
  /\ inited /\ ~popThrew
  /\ \A i \in 1..Len(navs) : navs[i].add /\ navs[i].route = r

\* C24: a forward navigation to the route already mounted pushes one more
\* entry and, when it mounts, replaces the mounted element by a new one; n
\* forward navigations to one routable route, Router.init's included, leave n
\* pushed entries after the loaded one and, once settled with the load
\* succeeded, n distinct elements created, the last one mounted.
C24_NavigationNotIdempotent ==
  /\ [][ (Invoked /\ NewNav.add /\ ShowsRoute(NewNav.route)) =>
           /\ Len(hist') = histIdx + 1
           /\ histIdx' = histIdx + 1
           /\ SubSeq(hist', 1, histIdx) = SubSeq(hist, 1, histIdx)
           /\ hist'[histIdx'].hasState
           /\ hist'[histIdx'].route = NewNav.route
           /\ NewNav.el /= NoElement =>
                /\ NewNav.el /= main[1]
                /\ NewNav.el.tag = main[1].tag
                /\ IF hasVT
                   THEN transitions' = Append(transitions, NewNav.el)
                   ELSE main' = << NewNav.el >> ]_vars
  /\ [] ( \A r \in Routes :
            (OnlyForwardTo(r) /\ ExpectedTag(r) /= "(null)") =>
              /\ Len(hist) = 1 + Len(navs)
              /\ histIdx = Len(hist)
              /\ \A k \in 2..Len(hist) : hist[k].hasState /\ hist[k].route = r
              /\ (Quiescent /\ \A v \in LazyViews : moduleMap[v] /= "failed") =>
                   /\ Created = 1..Len(navs)
                   /\ \A i, j \in Created : navs[i].el = navs[j].el => i = j
                   /\ main = << Latest.el >> )

\* C24 witness: the page was loaded at '/order' and '/order' was navigated
\* to twice more; four entries, and the third order-page is mounted
C24_Witness ==
  /\ OnlyForwardTo(RouteOrder)
  /\ Quiescent
  /\ Len(navs) = 3
  /\ Len(hist) = 4
  /\ main = << navs[3].el >>
  /\ main[1].tag = "order-page"

====
